---------------------------- MODULE Spec2Model ----------------------------
(***************************************************************************)
(* A model of the panorama hotspot pipeline: detect.py (analyze_panorama:  *)
(* image load, primary/backup model call, text extraction, regex parsing,  *)
(* ordering, labelling, yaw/pitch mapping, JSON write) and the two store   *)
(* routes of app.py (get_data, save_data).                                 *)
(*                                                                         *)
(* Numbers.  A Python float that was parsed from a decimal literal is kept *)
(* as the exact decimal [num, den] (den a power of ten, no trailing zero   *)
(* in the fraction).  yaw and pitch are kept in hundredths of a degree.    *)
(* Text is a sequence of one-character strings.                            *)
(***************************************************************************)
EXTENDS Integers, Sequences, FiniteSets, TLC

VARIABLES files, run, saver, reader, ops, lastSaved, fin, fout, fpc

vars == <<files, run, saver, reader, ops, lastSaved, fin, fout, fpc>>

sysVars == <<files, run, saver, reader, ops, lastSaved>>

pureVars == <<fin, fout, fpc>>

(***************************************************************************)
(* Bounds of the model.                                                    *)
(***************************************************************************)
\* requests (detection runs, saves, reads) served in one behaviour of the
\* concurrent system
MaxOps == 2

\* requests served in one behaviour of the one-at-a-time system
MaxSeqOps == 3

\* text pieces concatenated into one response text (parser specification)
MaxPieces == 4

\* fractional digits of the coordinates on the mapper's input grid
MaxFrac == 1

\* points in one parser output (ordering specification)
MaxPoints == 3

\* highest list position whose label is computed (labelling specification)
MaxIndex == 705

(***************************************************************************)
(* Program constants.                                                      *)
(***************************************************************************)
\* len("ABCDEFGHIJKLMNOPQRSTUVWXYZ")
AlphabetLen == 26

\* the normalized coordinate range 0..1000 and the divisor 1000.0
NormMax == 1000

YawSpan == 360

YawOffset == 180

PitchTop == 90

PitchSpan == 180

\* round(.., 2): hundredths
RoundScale == 100

\* ai_img.thumbnail((2048, 2048))
ThumbMax == 2048

(***************************************************************************)
(* Characters and decimal values.                                          *)
(***************************************************************************)
Digits == {"0", "1", "2", "3", "4", "5", "6", "7", "8", "9"}

DigitVal(c) ==
    CASE c = "0" -> 0 [] c = "1" -> 1 [] c = "2" -> 2 [] c = "3" -> 3
      [] c = "4" -> 4 [] c = "5" -> 5 [] c = "6" -> 6 [] c = "7" -> 7
      [] c = "8" -> 8 [] c = "9" -> 9

\* the characters \s matches
IsSpace(c) == c \in {" ", "\t", "\n"}

\* the value of a run of digits read as a decimal integer
RECURSIVE DigitsValue(_)
DigitsValue(s) ==
    IF s = <<>> THEN 0
    ELSE 10 * DigitsValue(SubSeq(s, 1, Len(s) - 1)) + DigitVal(s[Len(s)])

RECURSIVE Pow10(_)
Pow10(k) == IF k = 0 THEN 1 ELSE 10 * Pow10(k - 1)

\* the canonical form of num/den: 1.50 and 1.5 are the same float
RECURSIVE Normalize(_)
Normalize(v) ==
    IF v.den > 1 /\ v.num % 10 = 0
    THEN Normalize([num |-> v.num \div 10, den |-> v.den \div 10])
    ELSE v

\* index of the "." in a numeric literal, 0 when there is none
DotIndex(s) ==
    IF \E k \in 1..Len(s) : s[k] = "."
    THEN CHOOSE k \in 1..Len(s) : s[k] = "."
    ELSE 0

\* float(y_str) for a literal \d+(\.\d+)? : never raises on a regex match
ParseFloat(s) ==
    LET d == DotIndex(s) IN
    IF d = 0 THEN [num |-> DigitsValue(s), den |-> 1]
    ELSE LET ip == SubSeq(s, 1, d - 1)
             fp == SubSeq(s, d + 1, Len(s))
         IN  Normalize([num |-> DigitsValue(ip) * Pow10(Len(fp)) + DigitsValue(fp),
                        den |-> Pow10(Len(fp))])

\* a < b on floats
FloatLess(a, b) == a.num * b.den < b.num * a.den

(***************************************************************************)
(* Response Parser: re.findall(point_pattern, text_response).              *)
(*   \[\s*(\d+(?:\.\d+)?)\s*,\s*(\d+(?:\.\d+)?)\s*\]                      *)
(***************************************************************************)
At(t, i) == IF i >= 1 /\ i <= Len(t) THEN t[i] ELSE "EOT"

\* \s* from position i: the first position that is not white space
RECURSIVE SkipSpaces(_, _)
SkipSpaces(t, i) == IF IsSpace(At(t, i)) THEN SkipSpaces(t, i + 1) ELSE i

\* \d+ from position i: the first position after the run of digits
RECURSIVE SkipDigits(_, _)
SkipDigits(t, i) == IF At(t, i) \in Digits THEN SkipDigits(t, i + 1) ELSE i

\* \d+(?:\.\d+)? from position i: the position after the literal, or i itself
\* when no digit stands at i.  The optional fraction is taken only when a
\* digit follows the dot; no shorter alternative can lead to a match, since
\* the pattern continues with \s, "," or "]".
NumberEnd(t, i) ==
    LET e == SkipDigits(t, i) IN
    IF e = i THEN i
    ELSE IF At(t, e) = "." /\ At(t, e + 1) \in Digits
         THEN SkipDigits(t, e + 1)
         ELSE e

\* mutant: the two capture groups change places
GroupsSwapped(t, a, ae, b, be) == <<SubSeq(t, b, be - 1), SubSeq(t, a, ae - 1)>>

\* the capture groups of one match: (y_str, x_str)
Groups(t, a, ae, b, be) == <<SubSeq(t, a, ae - 1), SubSeq(t, b, be - 1)>>

\* one attempt of the pattern at position i
MatchAt(t, i) ==
    LET a  == SkipSpaces(t, i + 1)
        ae == NumberEnd(t, a)
        c  == SkipSpaces(t, ae)
        b  == SkipSpaces(t, c + 1)
        be == NumberEnd(t, b)
        z  == SkipSpaces(t, be)
    IN  IF At(t, i) = "[" /\ ae > a /\ At(t, c) = "," /\ be > b /\ At(t, z) = "]"
        THEN [ok |-> TRUE, groups |-> Groups(t, a, ae, b, be), next |-> z + 1]
        ELSE [ok |-> FALSE, groups |-> <<>>, next |-> i + 1]

\* findall: leftmost, non-overlapping matches, in order of appearance
RECURSIVE FindAllFrom(_, _)
FindAllFrom(t, i) ==
    IF i > Len(t) THEN <<>>
    ELSE LET m == MatchAt(t, i) IN
         IF m.ok THEN <<m.groups>> \o FindAllFrom(t, m.next)
         ELSE FindAllFrom(t, i + 1)

FindAll(t) == FindAllFrom(t, 1)

\* lines 82-87: points.append((float(y_str), float(x_str)))
ParsePoints(matches) ==
    [k \in 1..Len(matches) |->
        [y |-> ParseFloat(matches[k][1]), x |-> ParseFloat(matches[k][2])]]

(***************************************************************************)
(* Point Orderer: points.sort(key=lambda p: p[1]) (a stable sort).         *)
(***************************************************************************)
\* mutant: a new point goes before the points with the same x
InsertBeforeEqual(sorted, p) ==
    LET k == Cardinality({j \in 1..Len(sorted) : FloatLess(sorted[j].x, p.x)})
    IN  SubSeq(sorted, 1, k) \o <<p>> \o SubSeq(sorted, k + 1, Len(sorted))

\* p goes after every point whose x is not greater than its own
InsertByX(sorted, p) ==
    LET k == Cardinality({j \in 1..Len(sorted) : ~FloatLess(p.x, sorted[j].x)})
    IN  SubSeq(sorted, 1, k) \o <<p>> \o SubSeq(sorted, k + 1, Len(sorted))

RECURSIVE SortByX(_)
SortByX(points) ==
    IF points = <<>> THEN <<>>
    ELSE InsertByX(SortByX(SubSeq(points, 1, Len(points) - 1)), points[Len(points)])

(***************************************************************************)
(* Labeler: lines 92-98.  i is the 0-indexed position.                     *)
(***************************************************************************)
alphabet ==
    <<"A", "B", "C", "D", "E", "F", "G", "H", "I", "J", "K", "L", "M",
      "N", "O", "P", "Q", "R", "S", "T", "U", "V", "W", "X", "Y", "Z">>

\* alphabet[k] of Python, k >= 0: a letter, or IndexError past the end
AlphabetAt(k) ==
    IF k < AlphabetLen THEN [ok |-> TRUE, s |-> alphabet[k + 1]]
    ELSE [ok |-> FALSE, s |-> "IndexError"]

LabelText(i) ==
    IF i < AlphabetLen THEN AlphabetAt(i)
    ELSE LET hi == AlphabetAt((i \div AlphabetLen) - 1)
             lo == AlphabetAt(i % AlphabetLen)
         IN  IF hi.ok THEN [ok |-> TRUE, s |-> hi.s \o lo.s] ELSE hi

(***************************************************************************)
(* Coordinate Mapper: lines 100-113.                                       *)
(***************************************************************************)
\* round(n/d) for d > 0.  Python rounds the binary float; away from a tie
\* that is the nearest integer, and at an exact decimal tie the result
\* depends on the float's last bit, so both neighbours are possible.
RoundSet(n, d) ==
    LET q == n \div d
        r == n % d
    IN  IF 2 * r < d THEN {q}
        ELSE IF 2 * r > d THEN {q + 1}
        ELSE {q, q + 1}

\* mutant: the yaw offset is forgotten (0..360 instead of -180..180)
YawSetNoOffset(x) == RoundSet(x.num * YawSpan * RoundScale, NormMax * x.den)

\* round((norm_x / 1000.0) * 360.0 - 180.0, 2), in hundredths
YawSet(x) ==
    RoundSet((x.num * YawSpan - YawOffset * NormMax * x.den) * RoundScale,
             NormMax * x.den)

\* round(90.0 - (norm_y / 1000.0) * 180.0, 2), in hundredths
PitchSet(y) ==
    RoundSet((PitchTop * NormMax * y.den - y.num * PitchSpan) * RoundScale,
             NormMax * y.den)


(***************************************************************************)
(* Lines 94-116: the loop that builds buildings_data from the sorted list. *)
(***************************************************************************)
\* the dictionaries the loop may append for position i (0-indexed), point p
HotspotsAt(i, p) ==
    {[id |-> ToString(i), label |-> LabelText(i).s, yaw |-> yw, pitch |-> pt,
      y_norm |-> p.y, x_norm |-> p.x] : yw \in YawSet(p.x), pt \in PitchSet(p.y)}

RECURSIVE BuildPrefixes(_, _)
BuildPrefixes(sorted, n) ==
    IF n = 0 THEN {<<>>}
    ELSE {Append(d, h) : d \in BuildPrefixes(sorted, n - 1),
                         h \in HotspotsAt(n - 1, sorted[n])}

\* mutant: the list is labelled in parser order, the sort is skipped
BuildSetUnsorted(points) ==
    {[ok |-> TRUE, data |-> d] : d \in BuildPrefixes(points, Len(points))}

\* lines 89-116 on the parsed points: the possible buildings_data, or the
\* IndexError of alphabet[(i // 26) - 1] raised inside the loop
BuildSet(points) ==
    LET sorted == SortByX(points) IN
    IF \E i \in 0..(Len(sorted) - 1) : ~LabelText(i).ok
    THEN {[ok |-> FALSE, data |-> <<>>]}
    ELSE {[ok |-> TRUE, data |-> d] : d \in BuildPrefixes(sorted, Len(sorted))}

(***************************************************************************)
(* Specifications of the pure stages.  fin is the input, fout the output,  *)
(* fpc the position ("ready", "done"); the store and the handlers rest.    *)
(***************************************************************************)
Sessions == {"s1", "s2"}

NoPath == "None"

IdleRun ==
    [pc |-> "idle", image |-> "none", path |-> NoPath, calls |-> <<>>,
     resp |-> [candidates |-> <<>>], text |-> <<>>, data |-> <<>>,
     status |-> "none", result |-> <<>>, wrote |-> FALSE]

IdleSaver == [pc |-> "idle", id |-> "none", data |-> <<>>]

IdleReader ==
    [pc |-> "idle", id |-> "none", status |-> "none", result |-> <<>>,
     allowed |-> {}]

NoFile == [exists |-> FALSE, content |-> <<>>]

SysInit ==
    /\ files = [s \in Sessions |-> NoFile]
    /\ run = IdleRun
    /\ saver = IdleSaver
    /\ reader = IdleReader
    /\ lastSaved = [s \in Sessions |-> [by |-> "none", data |-> <<>>]]

PureOff == fin = <<>> /\ fout = <<>> /\ fpc = "off"

\* ---- labeler ----
InitLabel == SysInit /\ ops = 0 /\ fin \in 0..MaxIndex /\ fout = <<>> /\ fpc = "ready"

ApplyLabel ==
    /\ fpc = "ready"
    /\ fout' = LabelText(fin)
    /\ fpc' = "done"
    /\ UNCHANGED <<fin, sysVars>>

SpecLabel == InitLabel /\ [][ApplyLabel]_vars

\* ---- orderer, labeler and mapper together: lines 89-116 ----
Dec(n, d) == Normalize([num |-> n, den |-> d])

\* the coordinates of the ordering specification: ties in x, decimals
OrderCoords == {Dec(0, 1), Dec(5, 10), Dec(7, 1)}

OrderPoints == {[y |-> a, x |-> b] : a \in OrderCoords, b \in OrderCoords}

SeqsUpTo(S, n) == UNION {[1..k -> S] : k \in 0..n}

InitOrder ==
    SysInit /\ ops = 0 /\ fin \in SeqsUpTo(OrderPoints, MaxPoints) /\ fout = <<>> /\ fpc = "ready"

ApplyBuild ==
    /\ fpc = "ready"
    /\ fout' \in BuildSet(fin)
    /\ fpc' = "done"
    /\ UNCHANGED <<fin, sysVars>>

SpecOrder == InitOrder /\ [][ApplyBuild]_vars

\* the grid of the mapper specification: every multiple of 10^-MaxFrac in
\* [0, 1000], as the pair (v, v) and as the pair (v, 1000 - v)
GridPoint(k, mirrored) ==
    LET den == Pow10(MaxFrac) IN
    [y |-> Dec(k, den),
     x |-> Dec(IF mirrored THEN NormMax * den - k ELSE k, den)]

InitMapper ==
    /\ SysInit /\ ops = 0
    /\ \E k \in 0..(NormMax * Pow10(MaxFrac)), mirrored \in BOOLEAN :
          fin = <<GridPoint(k, mirrored)>>
    /\ fout = <<>> /\ fpc = "ready"

SpecMapper == InitMapper /\ [][ApplyBuild]_vars

\* ---- parser ----
\* fragments of response text; concatenations form prose, well-formed pairs
\* ("[1" "," "2]"), pairs across fragments and broken pairs
Pieces ==
    { <<"[", "1">>, <<",">>, <<"2", "]">>, <<" ">>, <<".", "5">>, <<"a">>,
      <<"[">>, <<"]">>, <<"[", "3", ",", "4", "]">>,
      <<"[", " ", "0", ".", "5", "\n", ",", "1", "0", " ", "]">> }

RECURSIVE Flatten(_)
Flatten(ps) == IF ps = <<>> THEN <<>> ELSE Head(ps) \o Flatten(Tail(ps))

InitParser == SysInit /\ ops = 0 /\ fin = <<>> /\ fout = <<>> /\ fpc = "ready"

AppendPiece ==
    /\ fpc = "ready"
    /\ Len(fin) < MaxPieces
    /\ \E p \in Pieces : fin' = Append(fin, p)
    /\ UNCHANGED <<fout, fpc, sysVars>>

ApplyParser ==
    /\ fpc = "ready"
    /\ fout' = ParsePoints(FindAll(Flatten(fin)))
    /\ fpc' = "done"
    /\ UNCHANGED <<fin, sysVars>>

SpecParser == InitParser /\ [][AppendPiece \/ ApplyParser]_vars


(***************************************************************************)
(* JSON: json.dump(data, f, indent=2) and json.load(f).  A document is a   *)
(* sequence of tokens; a number token carries the characters of the        *)
(* float's repr, a string token the string.  Separators and indentation    *)
(* carry nothing and are left out.                                         *)
(***************************************************************************)
Tok(t, k, v) == [t |-> t, k |-> k, v |-> v]

LBrack == Tok("[", "", <<>>)

RBrack == Tok("]", "", <<>>)

LBrace == Tok("{", "", <<>>)

RBrace == Tok("}", "", <<>>)

DigitChar(d) == CHOOSE c \in Digits : DigitVal(c) = d

\* str(n) for n >= 0, as characters
RECURSIVE IntChars(_)
IntChars(n) ==
    IF n < 10 THEN <<DigitChar(n)>>
    ELSE IntChars(n \div 10) \o <<DigitChar(n % 10)>>

\* the k low decimal digits of n, zero padded
RECURSIVE FracChars(_, _)
FracChars(n, k) ==
    IF k = 0 THEN <<>> ELSE FracChars(n \div 10, k - 1) \o <<DigitChar(n % 10)>>

RECURSIVE Log10(_)
Log10(d) == IF d = 1 THEN 0 ELSE 1 + Log10(d \div 10)

\* repr of a non-negative float: 7.0, 0.5, 237.5
FloatRepr(v) ==
    IntChars(v.num \div v.den) \o <<".">> \o
    (IF v.den = 1 THEN <<"0">> ELSE FracChars(v.num % v.den, Log10(v.den)))

\* repr of a float given in hundredths: -120.0, 12.5, 89.95
HundredthsRepr(h) ==
    LET a == IF h < 0 THEN -h ELSE h IN
    (IF h < 0 THEN <<"-">> ELSE <<>>) \o FloatRepr(Normalize([num |-> a, den |-> RoundScale]))

\* the float of a repr, in hundredths
ParseHundredths(cs) ==
    LET neg == cs # <<>> /\ cs[1] = "-"
        v   == ParseFloat(IF neg THEN Tail(cs) ELSE cs)
        a   == (v.num * RoundScale) \div v.den
    IN  IF neg THEN -a ELSE a

\* mutant: the coordinates are written as integers (the fraction is lost)
NormTokenTruncated(k, v) == Tok("num", k, IntChars(v.num \div v.den) \o <<".", "0">>)

NormToken(k, v) == Tok("num", k, FloatRepr(v))

\* one dictionary of the list
RecordTokens(h) ==
    << LBrace,
       Tok("str", "id", <<h.id>>),
       Tok("str", "label", <<h.label>>),
       Tok("num", "yaw", HundredthsRepr(h.yaw)),
       Tok("num", "pitch", HundredthsRepr(h.pitch)),
       NormToken("y_norm", h.y_norm),
       NormToken("x_norm", h.x_norm),
       RBrace >>

RecordLen == Len(RecordTokens([id |-> "0", label |-> "A", yaw |-> 0, pitch |-> 0,
                               y_norm |-> [num |-> 0, den |-> 1],
                               x_norm |-> [num |-> 0, den |-> 1]]))

RECURSIVE ListTokens(_)
ListTokens(data) ==
    IF data = <<>> THEN <<>> ELSE RecordTokens(Head(data)) \o ListTokens(Tail(data))

Serialize(data) == <<LBrack>> \o ListTokens(data) \o <<RBrack>>

IsRecordAt(c, i) ==
    /\ i + RecordLen - 1 <= Len(c)
    /\ c[i] = LBrace
    /\ c[i + 1].t = "str" /\ c[i + 1].k = "id"
    /\ c[i + 2].t = "str" /\ c[i + 2].k = "label"
    /\ c[i + 3].t = "num" /\ c[i + 3].k = "yaw"
    /\ c[i + 4].t = "num" /\ c[i + 4].k = "pitch"
    /\ c[i + 5].t = "num" /\ c[i + 5].k = "y_norm"
    /\ c[i + 6].t = "num" /\ c[i + 6].k = "x_norm"
    /\ c[i + 7] = RBrace

RecordAt(c, i) ==
    [id |-> c[i + 1].v[1], label |-> c[i + 2].v[1],
     yaw |-> ParseHundredths(c[i + 3].v), pitch |-> ParseHundredths(c[i + 4].v),
     y_norm |-> ParseFloat(c[i + 5].v), x_norm |-> ParseFloat(c[i + 6].v)]

\* the list from position i on; data after the closing bracket is an error
RECURSIVE ParseRecords(_, _, _)
ParseRecords(c, i, acc) ==
    IF i > Len(c) THEN [ok |-> FALSE, data |-> <<>>]
    ELSE IF c[i] = RBrack THEN [ok |-> i = Len(c), data |-> IF i = Len(c) THEN acc ELSE <<>>]
    ELSE IF IsRecordAt(c, i) THEN ParseRecords(c, i + RecordLen, Append(acc, RecordAt(c, i)))
    ELSE [ok |-> FALSE, data |-> <<>>]

\* json.load: the list, or JSONDecodeError (ok = FALSE) on an empty or
\* malformed document
Deserialize(c) ==
    IF c = <<>> \/ c[1] # LBrack THEN [ok |-> FALSE, data |-> <<>>]
    ELSE ParseRecords(c, 2, <<>>)

(***************************************************************************)
(* The file of one session: open(path, "w") creates or truncates it; the   *)
(* text written through the buffered file reaches it when the with block   *)
(* closes the file (a hotspot set is far below the buffer size).  A writer *)
(* writes from its own offset 0 and does not truncate again, so what an    *)
(* overlapping writer left beyond the new text stays.                      *)
(***************************************************************************)
Truncated(f) == [exists |-> TRUE, content |-> <<>>]

Overwritten(f, text) ==
    [exists |-> TRUE,
     content |-> text \o SubSeq(f.content, Len(text) + 1, Len(f.content))]

(***************************************************************************)
(* Inputs.                                                                 *)
(***************************************************************************)
Images == {"pano_ok", "pano_corrupt"}

\* PIL.Image.open succeeds
Decodable(image) == image = "pano_ok"

\* img.copy(); thumbnail((2048, 2048))
Prepared(image) == [source |-> image, maxdim |-> ThumbMax]

Prompt == "prompt_text"

PrimaryModel == "gemini-3-pro-image-preview"

BackupModel == "gemini-3-pro-preview"

TextPart(t) == [hasText |-> TRUE, text |-> t]

NonTextPart == [hasText |-> FALSE, text |-> <<>>]

Candidate(parts) == [hasContent |-> TRUE, parts |-> parts]

RespNoCandidates == [candidates |-> <<>>]

RespNoContent == [candidates |-> <<[hasContent |-> FALSE, parts |-> <<>>]>>]

RespNoParts == [candidates |-> <<Candidate(<<>>)>>]

RespNonText == [candidates |-> <<Candidate(<<NonTextPart>>)>>]

RespEmptyText == [candidates |-> <<Candidate(<<TextPart(<<>>)>>)>>]

RespProse == [candidates |-> <<Candidate(<<TextPart(<<"n", "o">>)>>)>>]

RespOnePoint == [candidates |-> <<Candidate(<<TextPart(<<"[", "5", ",", "2", "]">>)>>)>>]

\* "[9,7] [1, 0.5]" in two text parts around a non-text part
RespTwoPoints ==
    [candidates |->
        <<Candidate(<<TextPart(<<"[", "9", ",">>), NonTextPart,
                      TextPart(<<"7", "]", " ", "[", "1", ",", " ", "0", ".", "5", "]">>)>>)>>]

Responses ==
    {RespNoCandidates, RespNoContent, RespNoParts, RespNonText, RespEmptyText,
     RespProse, RespOnePoint, RespTwoPoints}

\* the lists an editor client may post: any list, in any order
EditLeft ==
    [id |-> "0", label |-> "A", yaw |-> -17928, pitch |-> 8910,
     y_norm |-> Dec(5, 1), x_norm |-> Dec(2, 1)]

EditRight ==
    [id |-> "1", label |-> "Tower", yaw |-> 1255, pitch |-> -450,
     y_norm |-> Dec(5255, 10), x_norm |-> Dec(7, 1)]

ClientLists == {<<>>, <<EditLeft>>, <<EditLeft, EditRight>>, <<EditRight, EditLeft>>}


(***************************************************************************)
(* analyze_panorama(image_path, prompt_text, output_json_path)             *)
(***************************************************************************)
Returned(r, data) == [r EXCEPT !.pc = "done", !.status = "returned", !.result = data]

Raised(r) == [r EXCEPT !.pc = "done", !.status = "raised"]

\* one generate_content call: contents=[prompt_text, ai_img], and its outcome
CallRecord(modelName, r, ok, resp) ==
    [model |-> modelName, prompt |-> Prompt, img |-> Prepared(r.image), ok |-> ok,
     resp |-> resp]

NoResponse == [candidates |-> <<>>]

\* mutant: the backup call is not guarded, its exception leaves the run
BackupFailedRaises(r) == Raised(r)

\* lines 58-60
BackupFailed(r) == Returned(r, <<>>)

\* a reader that is at work on session id learns of a set written meanwhile
NoteWrite(id, data) ==
    IF reader.pc \in {"exists", "read"} /\ reader.id = id
    THEN [reader EXCEPT !.allowed = @ \cup {data}]
    ELSE reader

\* the sets that writers at work on session id are about to store
PendingWrites(id) ==
    (IF saver.pc \in {"open", "dump"} /\ saver.id = id THEN {saver.data} ELSE {})
    \cup (IF run.pc \in {"open", "dump"} /\ run.path = id THEN {run.data} ELSE {})

\* the caller: the /detect route (a session's json path) or the test block
StartRun ==
    /\ run.pc = "idle"
    /\ ops > 0
    /\ \E image \in Images, path \in Sessions \cup {NoPath} :
          run' = [IdleRun EXCEPT !.pc = "load", !.image = image, !.path = path]
    /\ ops' = ops - 1
    /\ UNCHANGED <<files, saver, reader, lastSaved, pureVars>>

\* lines 31-41
LoadImage ==
    /\ run.pc = "load"
    /\ run' = IF Decodable(run.image) THEN [run EXCEPT !.pc = "primary"]
              ELSE Returned(run, <<>>)
    /\ UNCHANGED <<files, saver, reader, ops, lastSaved, pureVars>>

\* lines 45-52: the call answers with some response or raises
CallPrimary ==
    /\ run.pc = "primary"
    /\ \/ \E r \in Responses :
             run' = [run EXCEPT !.pc = "extract", !.resp = r,
                                !.calls = Append(@, CallRecord(PrimaryModel, run, TRUE, r))]
       \/ run' = [run EXCEPT !.pc = "backup",
                             !.calls = Append(@, CallRecord(PrimaryModel, run, FALSE, NoResponse))]
    /\ UNCHANGED <<files, saver, reader, ops, lastSaved, pureVars>>

\* lines 53-60
CallBackup ==
    /\ run.pc = "backup"
    /\ \/ \E r \in Responses :
             run' = [run EXCEPT !.pc = "extract", !.resp = r,
                                !.calls = Append(@, CallRecord(BackupModel, run, TRUE, r))]
       \/ run' = BackupFailed([run EXCEPT
                    !.calls = Append(@, CallRecord(BackupModel, run, FALSE, NoResponse))])
    /\ UNCHANGED <<files, saver, reader, ops, lastSaved, pureVars>>

\* the for loop of lines 64-66 over the parts
RECURSIVE JoinText(_)
JoinText(parts) ==
    IF parts = <<>> THEN <<>>
    ELSE (IF Head(parts).hasText THEN Head(parts).text ELSE <<>>) \o JoinText(Tail(parts))

\* lines 62-70; candidates[0].content.parts of a candidate without content
\* raises AttributeError
ExtractText ==
    /\ run.pc = "extract"
    /\ LET cs == run.resp.candidates IN
       run' = IF cs = <<>> THEN Returned(run, <<>>)
              ELSE IF ~cs[1].hasContent THEN Raised(run)
              ELSE IF JoinText(cs[1].parts) = <<>> THEN Returned(run, <<>>)
              ELSE [run EXCEPT !.pc = "parse", !.text = JoinText(cs[1].parts)]
    /\ UNCHANGED <<files, saver, reader, ops, lastSaved, pureVars>>

\* mutant: the write is reached whether or not a point was found
WritesWithoutMatches(r, matches) == r.path # NoPath

\* lines 78 and 118: the file is written inside "if matches", when a path is given
WritesAfterBuild(r, matches) == matches # <<>> /\ r.path # NoPath

\* lines 72-118 up to the open
ParseAndBuild ==
    /\ run.pc = "parse"
    /\ LET matches == FindAll(run.text) IN
       \E out \in (IF matches = <<>> THEN {[ok |-> TRUE, data |-> <<>>]}
                   ELSE BuildSet(ParsePoints(matches))) :
          run' = IF ~out.ok THEN Raised(run)
                 ELSE IF WritesAfterBuild(run, matches)
                      THEN [run EXCEPT !.pc = "open", !.data = out.data]
                      ELSE Returned([run EXCEPT !.data = out.data], out.data)
    /\ UNCHANGED <<files, saver, reader, ops, lastSaved, pureVars>>

\* line 119
RunOpen ==
    /\ run.pc = "open"
    /\ files' = [files EXCEPT ![run.path] = Truncated(@)]
    /\ run' = [run EXCEPT !.pc = "dump", !.wrote = TRUE]
    /\ UNCHANGED <<saver, reader, ops, lastSaved, pureVars>>

\* lines 120-126
RunClose ==
    /\ run.pc = "dump"
    /\ files' = [files EXCEPT ![run.path] = Overwritten(@, Serialize(run.data))]
    /\ lastSaved' = [lastSaved EXCEPT ![run.path] = [by |-> "detect", data |-> run.data]]
    /\ reader' = NoteWrite(run.path, run.data)
    /\ run' = Returned(run, run.data)
    /\ UNCHANGED <<saver, ops, pureVars>>

RunFinish ==
    /\ run.pc = "done"
    /\ run' = IdleRun
    /\ UNCHANGED <<files, saver, reader, ops, lastSaved, pureVars>>

(***************************************************************************)
(* save_data(id): app.py lines 141-147                                     *)
(***************************************************************************)
StartSave ==
    /\ saver.pc = "idle"
    /\ ops > 0
    /\ \E id \in Sessions, data \in ClientLists :
          saver' = [pc |-> "open", id |-> id, data |-> data]
    /\ ops' = ops - 1
    /\ UNCHANGED <<files, run, reader, lastSaved, pureVars>>

\* line 145
SaveOpen ==
    /\ saver.pc = "open"
    /\ files' = [files EXCEPT ![saver.id] = Truncated(@)]
    /\ saver' = [saver EXCEPT !.pc = "dump"]
    /\ UNCHANGED <<run, reader, ops, lastSaved, pureVars>>

\* lines 146-147
SaveClose ==
    /\ saver.pc = "dump"
    /\ files' = [files EXCEPT ![saver.id] = Overwritten(@, Serialize(saver.data))]
    /\ lastSaved' = [lastSaved EXCEPT ![saver.id] = [by |-> "save", data |-> saver.data]]
    /\ reader' = NoteWrite(saver.id, saver.data)
    /\ saver' = [saver EXCEPT !.pc = "done"]
    /\ UNCHANGED <<run, ops, pureVars>>

SaveFinish ==
    /\ saver.pc = "done"
    /\ saver' = IdleSaver
    /\ UNCHANGED <<files, run, reader, ops, lastSaved, pureVars>>

(***************************************************************************)
(* get_data(id): app.py lines 132-139                                      *)
(***************************************************************************)
StartGet ==
    /\ reader.pc = "idle"
    /\ ops > 0
    /\ \E id \in Sessions :
          reader' = [IdleReader EXCEPT !.pc = "exists", !.id = id,
                        !.allowed = {lastSaved[id].data} \cup PendingWrites(id)]
    /\ ops' = ops - 1
    /\ UNCHANGED <<files, run, saver, lastSaved, pureVars>>

\* line 139
MissingIsEmpty(r) == [r EXCEPT !.pc = "done", !.status = "ok", !.result = <<>>]

\* line 135
GetExists ==
    /\ reader.pc = "exists"
    /\ reader' = IF files[reader.id].exists THEN [reader EXCEPT !.pc = "read"]
                 ELSE MissingIsEmpty(reader)
    /\ UNCHANGED <<files, run, saver, ops, lastSaved, pureVars>>

\* lines 136-138: json.load raises on an empty or malformed file
GetRead ==
    /\ reader.pc = "read"
    /\ LET d == Deserialize(files[reader.id].content) IN
       reader' = IF d.ok
                 THEN [reader EXCEPT !.pc = "done", !.status = "ok", !.result = d.data]
                 ELSE [reader EXCEPT !.pc = "done", !.status = "error"]
    /\ UNCHANGED <<files, run, saver, ops, lastSaved, pureVars>>

GetFinish ==
    /\ reader.pc = "done"
    /\ reader' = IdleReader
    /\ UNCHANGED <<files, run, saver, ops, lastSaved, pureVars>>

(***************************************************************************)
(* The system: requests are served by concurrent threads.                  *)
(***************************************************************************)
\* ops is the number of requests still to be accepted
Init == SysInit /\ PureOff /\ ops = MaxOps

Steps ==
    \/ LoadImage \/ CallPrimary \/ CallBackup \/ ExtractText \/ ParseAndBuild
    \/ RunOpen \/ RunClose \/ RunFinish
    \/ SaveOpen \/ SaveClose \/ SaveFinish
    \/ GetExists \/ GetRead \/ GetFinish

Next == StartRun \/ StartSave \/ StartGet \/ Steps

Spec == Init /\ [][Next]_vars

\* one request at a time: a request starts when no other is being served
AllIdle == run.pc = "idle" /\ saver.pc = "idle" /\ reader.pc = "idle"

SeqStartRun == AllIdle /\ StartRun

SeqStartSave == AllIdle /\ StartSave

SeqStartGet == AllIdle /\ StartGet

NextSeq == SeqStartRun \/ SeqStartSave \/ SeqStartGet \/ Steps

InitSeq == SysInit /\ PureOff /\ ops = MaxSeqOps

SpecSeq == InitSeq /\ [][NextSeq]_vars


(***************************************************************************)
(* Properties.                                                             *)
(***************************************************************************)
\* the response text holds at least one coordinate pair
HasPoints(resp) ==
    /\ resp.candidates # <<>>
    /\ resp.candidates[1].hasContent
    /\ FindAll(JoinText(resp.candidates[1].parts)) # <<>>

AfterCalls == {"extract", "parse", "open", "dump", "done"}

C2_AlwaysReturnsList ==
    run.pc = "done" => run.status = "returned"

\* C3: a read of a session that runs concurrently with a write of the same
\* session returns the complete previous set or the complete new set, never
\* an error and never an empty or partial record.
C3_ReadersSeeCompleteSets ==
    reader.pc = "done" =>
        reader.status = "ok" /\ reader.result \in reader.allowed

Sorted(data) ==
    \A k \in 1..(Len(data) - 1) : ~FloatLess(data[k + 1].x_norm, data[k].x_norm)

\* C9 (as claimed): every stored hotspot set has non-decreasing x_norm,
\* after any detection runs and edit-saves.
C9_StoredSetsSorted ==
    \A s \in Sessions :
        LET d == Deserialize(files[s].content) IN
        (files[s].exists /\ d.ok) => Sorted(d.data)

\* C9 (amended): a set stored by a detection run has non-decreasing x_norm;
\* an edit-save stores the client's list in the order it was sent.
C9_DetectionStoresSorted ==
    \A s \in Sessions :
        LET d == Deserialize(files[s].content) IN
        (lastSaved[s].by = "detect" /\ files[s].exists /\ d.ok) =>
            d.data = lastSaved[s].data /\ Sorted(d.data)

\* C9 witness: a detection run stored two points that the response named
\* right to left
C9_Witness ==
    \E s \in Sessions :
        /\ lastSaved[s].by = "detect"
        /\ Deserialize(files[s].content).ok
        /\ Len(Deserialize(files[s].content).data) = 2
        /\ run.resp = RespTwoPoints

\* C10: a detection run that returns the empty list has not opened its
\* output file, and a run opens it only with a non-empty list, which it then
\* returns; a step of a run that has not reached the open leaves every
\* record as it was.
C10_EmptyRunWritesNothing ==
    /\ [](/\ (run.pc = "done" /\ run.result = <<>>) => ~run.wrote
          /\ run.pc \in {"open", "dump"} => run.data # <<>>
          /\ (run.pc = "done" /\ run.wrote) =>
                run.status = "returned" /\ run.result = run.data /\ run.result # <<>>)
    /\ [][(run' # run /\ files' # files) => (run'.wrote /\ run'.data # <<>>)]_vars

\* C10 witness: a run found no coordinate pair in the text and returned the
\* empty list; the record already stored under its path is still there
C10_Witness ==
    /\ run.pc = "done"
    /\ run.status = "returned"
    /\ run.result = <<>>
    /\ run.resp = RespProse
    /\ run.path # NoPath
    /\ files[run.path].exists
    /\ Deserialize(files[run.path].content).ok
    /\ Deserialize(files[run.path].content).data = lastSaved[run.path].data
    /\ lastSaved[run.path].data # <<>>


\* C4: with one request served at a time, a read returns the list most
\* recently stored for its session (by save_data or by a detection run),
\* the empty list and no error when nothing was stored for it, and a read
\* leaves every stored record as it was.
C4_LoadReturnsLastSave ==
    /\ [](reader.pc = "done" =>
            /\ reader.status = "ok"
            /\ reader.result = lastSaved[reader.id].data
            /\ lastSaved[reader.id].by = "none" => reader.result = <<>>)
    /\ [][reader' # reader => files' = files]_vars

\* C4 witness: both sessions hold different saved sets, one of them with a
\* fractional coordinate, and a read has returned the set of its session
C4_Witness ==
    /\ reader.pc = "done"
    /\ reader.status = "ok"
    /\ lastSaved["s1"].by = "save"
    /\ lastSaved["s2"].by = "save"
    /\ lastSaved["s1"].data # lastSaved["s2"].data
    /\ reader.result = <<EditRight, EditLeft>>

Injections(n) == {f \in [1..n -> 1..n] : \A a, b \in 1..n : a # b => f[a] # f[b]}

C6_LabelAtEveryPosition ==
    fpc = "done" =>
        /\ fout.ok
        /\ fin < AlphabetLen => fout.s = alphabet[fin + 1]
        /\ fin >= AlphabetLen =>
              \E a, b \in 1..AlphabetLen :
                  /\ AlphabetLen * a + (b - 1) = fin
                  /\ fout.s = alphabet[a] \o alphabet[b]
        /\ fin = 0 => fout.s = "A"
        /\ fin = 25 => fout.s = "Z"
        /\ fin = 26 => fout.s = "AA"
        /\ fin = 27 => fout.s = "AB"
        /\ fin = 51 => fout.s = "AZ"
        /\ fin = 52 => fout.s = "BA"

\* the first position whose label does not exist: 26 * 27
LabelLimit == AlphabetLen * (AlphabetLen + 1)

\* C6 below the limit: the same statement for the positions 0..701, where
\* the code does compute a label
C6_LabelBelowLimit ==
    (fpc = "done" /\ fin < LabelLimit) => C6_LabelAtEveryPosition

Abs(n) == IF n < 0 THEN -n ELSE n

\* C7: for a pair (y, x) in [0, 1000] the yaw is x * 360 / 1000 - 180 and
\* the pitch 90 - y * 180 / 1000, each rounded to two decimals; the yaw lies
\* in [-180, 180], the pitch in [-90, 90]; x = 0 gives -180.00, x = 1000
\* gives 180.00, y = 0 gives 90.00, y = 1000 gives -90.00, and (500, 500)
\* gives (0.00, 0.00).
C7_YawPitchOfNormalizedPair ==
    (fpc = "done") =>
        /\ fout.ok
        /\ Len(fout.data) = 1
        /\ LET h == fout.data[1]
               x == fin[1].x
               y == fin[1].y
           IN  \* within half a hundredth of the exact value
               /\ 2 * Abs(h.yaw * 1000 * x.den - (x.num * 360 - 180 * 1000 * x.den) * 100)
                     <= 1000 * x.den
               /\ 2 * Abs(h.pitch * 1000 * y.den - (90 * 1000 * y.den - y.num * 180) * 100)
                     <= 1000 * y.den
               /\ h.yaw >= -18000 /\ h.yaw <= 18000
               /\ h.pitch >= -9000 /\ h.pitch <= 9000
               /\ x = Dec(0, 1) => h.yaw = -18000
               /\ x = Dec(1000, 1) => h.yaw = 18000
               /\ y = Dec(0, 1) => h.pitch = 9000
               /\ y = Dec(1000, 1) => h.pitch = -9000
               /\ (x = Dec(500, 1) /\ y = Dec(500, 1)) => (h.yaw = 0 /\ h.pitch = 0)

\* C7 witness: (y, x) = (237.5, 762.5) was mapped to yaw 94.50, pitch 47.25
C7_Witness ==
    /\ fpc = "done"
    /\ fin[1].y = Dec(2375, 10)
    /\ fin[1].x = Dec(7625, 10)
    /\ fout.data[1].yaw = 9450
    /\ fout.data[1].pitch = 4725

(***************************************************************************)
(* The pairs of a text, by the shape of the text: a pair starts at a "[",  *)
(* ends at the first "]" after it and holds two numeric literals, white    *)
(* space around them allowed, with one comma between.                      *)
(***************************************************************************)
AllDigits(s) == s # <<>> /\ \A k \in 1..Len(s) : s[k] \in Digits

IsLiteral(s) ==
    \/ AllDigits(s)
    \/ \E d \in 2..(Len(s) - 1) :
          s[d] = "." /\ AllDigits(SubSeq(s, 1, d - 1)) /\ AllDigits(SubSeq(s, d + 1, Len(s)))

\* s is white space, a literal, white space
IsPaddedLiteral(s) ==
    \E a, b \in 1..Len(s) :
        /\ a <= b
        /\ \A k \in 1..Len(s) : (k < a \/ k > b) => IsSpace(s[k])
        /\ IsLiteral(SubSeq(s, a, b))

LiteralOf(s) ==
    LET a == CHOOSE a \in 1..Len(s) : ~IsSpace(s[a]) /\ \A k \in 1..(a - 1) : IsSpace(s[k])
        b == CHOOSE b \in 1..Len(s) : ~IsSpace(s[b]) /\ \A k \in (b + 1)..Len(s) : IsSpace(s[k])
    IN  SubSeq(s, a, b)

CommaOf(t, i, j) == CHOOSE c \in (i + 1)..(j - 1) : t[c] = ","

\* t[i..j] is a well-formed pair
IsPairSpan(t, i, j) ==
    /\ i < j /\ t[i] = "[" /\ t[j] = "]"
    /\ \A k \in (i + 1)..(j - 1) : t[k] # "]" /\ t[k] # "["
    /\ Cardinality({c \in (i + 1)..(j - 1) : t[c] = ","}) = 1
    /\ IsPaddedLiteral(SubSeq(t, i + 1, CommaOf(t, i, j) - 1))
    /\ IsPaddedLiteral(SubSeq(t, CommaOf(t, i, j) + 1, j - 1))

PairStarts(t) == {i \in 1..Len(t) : \E j \in 1..Len(t) : IsPairSpan(t, i, j)}

PairAt(t, i) ==
    LET j == CHOOSE j \in 1..Len(t) : IsPairSpan(t, i, j)
        c == CommaOf(t, i, j)
    IN  [y |-> ParseFloat(LiteralOf(SubSeq(t, i + 1, c - 1))),
         x |-> ParseFloat(LiteralOf(SubSeq(t, c + 1, j - 1)))]

\* C8: for a text with k well-formed pairs, whatever surrounds them, the
\* parser returns exactly k pairs, in order of appearance, the first number
\* of each as y and the second as x.
C8_ParserReturnsThePairs ==
    fpc = "done" =>
        LET t == Flatten(fin)
            starts == PairStarts(t)
        IN  /\ Len(fout) = Cardinality(starts)
            /\ \A i \in starts :
                  fout[Cardinality({j \in starts : j <= i})] = PairAt(t, i)

\* C8 witness: two pairs were returned from a text with prose and a stray
\* bracket around them, the second pair being (0.5, 10)
C8_Witness ==
    /\ fpc = "done"
    /\ Len(fout) = 2
    /\ \E k \in 1..Len(fin) : fin[k] = <<"a">>
    /\ \E k \in 1..Len(fin) : fin[k] = <<"[">>
    /\ fout[1].y # fout[1].x
    /\ fout[2] = [y |-> Dec(5, 10), x |-> Dec(10, 1)]

=============================================================================
